---- MODULE Spec2Model ----
(***************************************************************************)
(* A model of libsteel, the register access layer of RISC-V Steel: the     *)
(* MTimer, SPI and UART controllers' registers, the library functions that *)
(* load and store them, and the hardware that changes them in between.     *)
(*                                                                         *)
(* The library runs in a single execution context: one call is in progress *)
(* at a time (pc, op, arg), and every volatile load and store of a call is *)
(* one step, so that the hardware (the timer's tick, the end of a          *)
(* transfer) interleaves between any two of them.  log is the sequence of  *)
(* bus accesses of the call in progress, <<"ld" | "st", register, value>>. *)
(*                                                                         *)
(* Widths are scaled: a 32-bit MTimer word has HalfBits bits (a 64-bit     *)
(* value 2*HalfBits), a uint8_t has ByteBits bits and a 32-bit SPI/UART    *)
(* register ByteBits+1 bits, so that every conversion between them         *)
(* truncates as in the source.  The GPIO controller has NumPins pins and   *)
(* registers of NumPins bits.  The IN register is not state of its own: it *)
(* reads the level of the pins, which the controller drives from OUT where *)
(* OE is set and which comes from outside (PINS) elsewhere.  SET and CLR   *)
(* hold nothing: a store to them sets or clears bits of OUT.               *)
(***************************************************************************)
EXTENDS Integers, Sequences, FiniteSets

\* ------------------------------------------------------------------ bounds
HalfBits == 2
ByteBits == 2
MaxPolls == 2
MaxStrLen == 2
MaxTicks == 2
NumPins == 2

RECURSIVE Pow2(_)
Pow2(n) == IF n = 0 THEN 1 ELSE 2 * Pow2(n - 1)

WordMod == Pow2(HalfBits)
WordMax == WordMod - 1
DWordMod == WordMod * WordMod
ByteMod == Pow2(ByteBits)
RegMod == 2 * ByteMod
GpioMod == Pow2(NumPins)

NoVal == 0 - 1

\* The boundary values of a word: every word when HalfBits = 2.
EdgeWords == {0, 1, WordMax - 1, WordMax}
EdgeDWords == {h * WordMod + l : h \in EdgeWords, l \in EdgeWords}
Bytes == 0 .. (ByteMod - 1)
\* The bytes sent, and the register values the hardware latches: the boundary
\* values of a byte, and of the register bits above it.
TxBytes == {0, 1, ByteMod - 1}
RxValues == {0, ByteMod - 1, ByteMod, RegMod - 1}

\* ------------------------------------------------------------- arithmetic
RECURSIVE BitOr(_, _)
BitOr(a, b) ==
    IF a = 0 THEN b
    ELSE IF b = 0 THEN a
    ELSE (IF (a % 2 = 1) \/ (b % 2 = 1) THEN 1 ELSE 0) + 2 * BitOr(a \div 2, b \div 2)

RECURSIVE BitAnd(_, _)
BitAnd(a, b) ==
    IF a = 0 \/ b = 0 THEN 0
    ELSE (IF (a % 2 = 1) /\ (b % 2 = 1) THEN 1 ELSE 0) + 2 * BitAnd(a \div 2, b \div 2)

RECURSIVE BitXor(_, _)
BitXor(a, b) ==
    IF a = 0 THEN b
    ELSE IF b = 0 THEN a
    ELSE (IF (a % 2) # (b % 2) THEN 1 ELSE 0) + 2 * BitXor(a \div 2, b \div 2)

ShiftLeft(a, n) == a * Pow2(n)
ShiftRight(a, n) == a \div Pow2(n)

\* The bit operations of globals.h on a register value.
SET_FLAG(reg, mask) == BitOr(reg, mask)
CLR_FLAG(reg, mask) == reg - BitAnd(reg, mask)
INV_FLAG(reg, mask) == BitXor(reg, mask)
SET_BIT(reg, bit) == BitOr(reg, ShiftLeft(1, bit))
CLR_BIT(reg, bit) == reg - BitAnd(reg, ShiftLeft(1, bit))
INV_BIT(reg, bit) == BitXor(reg, ShiftLeft(1, bit))
READ_BIT(reg, bit) == ShiftRight(reg, bit) % 2

\* Conversion of an integer to uint32_t.
ToWord(x) == x % WordMod
\* Conversion of a register value to uint8_t.
ToByte(x) == x % ByteMod

VARIABLES
    CR, MTIMEL, MTIMEH, MTIMECMPL, MTIMECMPH,
    CPOL, CPHA, CHIP_SELECT, CLOCK_CONF, SPI_WDATA, SPI_RDATA, BUSY,
    UART_WDATA, UART_RDATA, READY, RXSTATUS,
    OE, OUT, PINS,
    pc, op, arg, tmp, ret, log,
    pre, above, ticked, latched, last, ticks

mtRegs == <<CR, MTIMEL, MTIMEH, MTIMECMPL, MTIMECMPH>>
spiRegs == <<CPOL, CPHA, CHIP_SELECT, CLOCK_CONF, SPI_WDATA, SPI_RDATA, BUSY>>
uartRegs == <<UART_WDATA, UART_RDATA, READY, RXSTATUS>>
gpioRegs == <<OE, OUT, PINS>>
prog == <<pc, op, arg, tmp, ret, log>>
ghost == <<pre, above, ticked, latched, last, ticks>>
vars == <<mtRegs, spiRegs, uartRegs, gpioRegs, prog, ghost>>

\* ------------------------------------------------------------ the program
InitProg ==
    /\ pc = "idle" /\ op = "none" /\ arg = NoVal /\ tmp = NoVal /\ ret = NoVal
    /\ log = <<>>
    /\ pre = NoVal /\ above = FALSE /\ ticked = FALSE /\ latched = FALSE /\ last = <<>>
    /\ ticks = 0

Enter(name, a, label) ==
    /\ pc = "idle"
    /\ pc' = label /\ op' = name /\ arg' = a
    /\ tmp' = NoVal /\ ret' = NoVal /\ log' = <<>>
    /\ ticked' = FALSE /\ latched' = FALSE /\ ticks' = 0

Goto(label) == pc' = label /\ UNCHANGED <<op, arg>>
Access(kind, reg, v) == log' = Append(log, <<kind, reg, v>>)

RetLabels ==
    {"cmp_ret", "cnt_ret", "get_ret", "clr_ret",
     "cpol_ret", "cpha_ret", "mode_ret", "gm_ret", "wt_ret", "wr_ret", "xf_ret",
     "uw_ret", "ws_ret",
     "en_ret", "dis_ret", "sel_ret", "des_ret", "cs_ret",
     "so_ret", "si_ret", "rd_ret", "gw_ret", "gs_ret", "gc_ret", "tg_ret",
     "is_ret", "ic_ret", "sog_ret", "sig_ret", "ra_ret", "wg_ret", "sg_ret",
     "cg_ret", "tgg_ret"}

\* The return of a call: its frame is gone.
Return ==
    /\ pc \in RetLabels
    /\ pc' = "idle" /\ op' = "none" /\ arg' = NoVal /\ tmp' = NoVal /\ ret' = NoVal
    /\ log' = <<>>
    /\ pre' = NoVal /\ above' = FALSE /\ ticked' = FALSE /\ latched' = FALSE /\ ticks' = 0
    /\ UNCHANGED <<mtRegs, spiRegs, uartRegs, gpioRegs, last>>

\* ----------------------------------------------------------------- MTimer
MTIMER_CR_EN_OFFSET == 0
\* Mutant: the enable mask one bit to the left.
MTIMER_CR_EN_MASK_SHIFTED == ShiftLeft(1, MTIMER_CR_EN_OFFSET + 1)
MTIMER_CR_EN_MASK == ShiftLeft(1, MTIMER_CR_EN_OFFSET)

Counter == MTIMEH * WordMod + MTIMEL
Compare == MTIMECMPH * WordMod + MTIMECMPL

\* Mutant: the high word taken with a shift one bit short.
HighWordShort(v) == ToWord(v \div (WordMod \div 2))
HighWord(v) == ToWord(v \div WordMod)
LowWord(v) == v % WordMod
\* Mutant: the low word is cleared, not saturated, before the high word is written.
AllZeros == ToWord(0)
AllOnes == ToWord(0 - 1)

InitMTimer ==
    /\ CR \in EdgeWords
    /\ MTIMEL \in EdgeWords /\ MTIMEH \in EdgeWords
    /\ MTIMECMPL \in EdgeWords /\ MTIMECMPH \in EdgeWords

\* latched: whether the hardware has latched RDATA since the last store to
\* WDATA of the call in progress.
\* above: whether the old and the new compare value have been above the
\* counter at every point of the update so far.  ticked: whether the counter
\* has counted since the call in progress was made.  ticks: how many times
\* it has counted since mtimer_set_counter stored to MTIMEL, until it stores
\* to MTIMEH (at most MaxTicks times).
AboveStep ==
    above' = IF op = "mtimer_set_compare"
             THEN above /\ pre > Counter' /\ arg > Counter'
             ELSE above

\* The hardware: the counter counts while the enable bit of CR is set.
Enabled == (CR \div MTIMER_CR_EN_MASK) % 2 = 1

Tick ==
    /\ Enabled
    /\ (pc = "cnt2") => (ticks < MaxTicks)
    /\ ticks' = IF pc = "cnt2" THEN ticks + 1 ELSE ticks
    /\ MTIMEL' = (Counter + 1) % WordMod
    /\ MTIMEH' = ((Counter + 1) \div WordMod) % WordMod
    /\ AboveStep
    /\ ticked' = (pc # "idle")
    /\ last' = <<>>
    /\ UNCHANGED <<CR, MTIMECMPL, MTIMECMPH, spiRegs, uartRegs, gpioRegs, prog, pre, latched>>

call_mtimer_set_compare(new_value) ==
    /\ Enter("mtimer_set_compare", new_value, "cmp1")
    /\ pre' = Compare
    /\ above' = (Compare > Counter /\ new_value > Counter)
    /\ last' = <<>>
    /\ UNCHANGED <<mtRegs, spiRegs, uartRegs, gpioRegs>>

\* Mutant: the first store already writes the new low word.
mtimer_set_compare_1_unsaturated ==
    /\ pc = "cmp1"
    /\ MTIMECMPL' = LowWord(arg)
    /\ Access("st", "MTIMECMPL", MTIMECMPL')
    /\ Goto("cmp2")
    /\ UNCHANGED <<CR, MTIMEL, MTIMEH, MTIMECMPH, spiRegs, uartRegs, gpioRegs, tmp, ret, ghost>>

mtimer_set_compare_1 ==
    /\ pc = "cmp1"
    /\ MTIMECMPL' = AllOnes
    /\ Access("st", "MTIMECMPL", MTIMECMPL')
    /\ Goto("cmp2")
    /\ UNCHANGED <<CR, MTIMEL, MTIMEH, MTIMECMPH, spiRegs, uartRegs, gpioRegs, tmp, ret, ghost>>

\* Mutant: the second store writes the low word, before the high word.
mtimer_set_compare_2_low_first ==
    /\ pc = "cmp2"
    /\ MTIMECMPL' = LowWord(arg)
    /\ Access("st", "MTIMECMPL", MTIMECMPL')
    /\ Goto("cmp3")
    /\ UNCHANGED <<CR, MTIMEL, MTIMEH, MTIMECMPH, spiRegs, uartRegs, gpioRegs, tmp, ret, ghost>>

mtimer_set_compare_2 ==
    /\ pc = "cmp2"
    /\ MTIMECMPH' = HighWord(arg)
    /\ Access("st", "MTIMECMPH", MTIMECMPH')
    /\ Goto("cmp3")
    /\ UNCHANGED <<CR, MTIMEL, MTIMEH, MTIMECMPL, spiRegs, uartRegs, gpioRegs, tmp, ret, ghost>>

\* Mutant: the third store is left out.
mtimer_set_compare_3_skipped ==
    /\ pc = "cmp3"
    /\ Goto("cmp_ret")
    /\ UNCHANGED <<mtRegs, spiRegs, uartRegs, gpioRegs, tmp, ret, log, ghost>>
mtimer_set_compare_3 ==
    /\ pc = "cmp3"
    /\ MTIMECMPL' = LowWord(arg)
    /\ Access("st", "MTIMECMPL", MTIMECMPL')
    /\ Goto("cmp_ret")
    /\ UNCHANGED <<CR, MTIMEL, MTIMEH, MTIMECMPH, spiRegs, uartRegs, gpioRegs, tmp, ret, ghost>>

call_mtimer_set_counter(new_value) ==
    /\ Enter("mtimer_set_counter", new_value, "cnt1")
    /\ pre' = NoVal /\ above' = FALSE /\ last' = <<>>
    /\ UNCHANGED <<mtRegs, spiRegs, uartRegs, gpioRegs>>

mtimer_set_counter_1 ==
    /\ pc = "cnt1"
    /\ MTIMEL' = LowWord(arg)
    /\ Access("st", "MTIMEL", MTIMEL')
    /\ Goto("cnt2")
    /\ UNCHANGED <<CR, MTIMEH, MTIMECMPL, MTIMECMPH, spiRegs, uartRegs, gpioRegs, tmp, ret, ghost>>

mtimer_set_counter_2 ==
    /\ pc = "cnt2"
    /\ MTIMEH' = HighWord(arg)
    /\ Access("st", "MTIMEH", MTIMEH')
    /\ Goto("cnt_ret")
    /\ last' = IF Enabled THEN <<>> ELSE <<"counter", arg>>
    /\ UNCHANGED <<CR, MTIMEL, MTIMECMPL, MTIMECMPH, spiRegs, uartRegs, gpioRegs, tmp, ret, pre, above, ticked, ticks, latched>>

call_mtimer_get_counter ==
    /\ Enter("mtimer_get_counter", NoVal, "get1")
    /\ pre' = NoVal /\ above' = FALSE
    /\ UNCHANGED <<mtRegs, spiRegs, uartRegs, gpioRegs, last>>

mtimer_get_counter_1 ==
    /\ pc = "get1"
    /\ tmp' = MTIMEL
    /\ Access("ld", "MTIMEL", MTIMEL)
    /\ Goto("get2")
    /\ UNCHANGED <<mtRegs, spiRegs, uartRegs, gpioRegs, ret, ghost>>

CounterValue(cnt_h, cnt_l) == BitOr(ShiftLeft(cnt_h, HalfBits - 1), cnt_l)

mtimer_get_counter_2 ==
    /\ pc = "get2"
    /\ ret' = CounterValue(MTIMEH, tmp)
    /\ Access("ld", "MTIMEH", MTIMEH)
    /\ Goto("get_ret")
    /\ UNCHANGED <<mtRegs, spiRegs, uartRegs, gpioRegs, tmp, ghost>>

call_mtimer_clear_counter ==
    /\ Enter("mtimer_clear_counter", NoVal, "clr1")
    /\ pre' = NoVal /\ above' = FALSE /\ last' = <<>>
    /\ UNCHANGED <<mtRegs, spiRegs, uartRegs, gpioRegs>>

mtimer_clear_counter_1 ==
    /\ pc = "clr1"
    /\ MTIMEL' = 0
    /\ Access("st", "MTIMEL", 0)
    /\ Goto("clr2")
    /\ UNCHANGED <<CR, MTIMEH, MTIMECMPL, MTIMECMPH, spiRegs, uartRegs, gpioRegs, tmp, ret, ghost>>

mtimer_clear_counter_2 ==
    /\ pc = "clr2"
    /\ MTIMEH' = 0
    /\ Access("st", "MTIMEH", 0)
    /\ Goto("clr_ret")
    /\ UNCHANGED <<CR, MTIMEL, MTIMECMPL, MTIMECMPH, spiRegs, uartRegs, gpioRegs, tmp, ret, ghost>>

call_mtimer_enable ==
    /\ Enter("mtimer_enable", NoVal, "en1")
    /\ pre' = mtRegs /\ above' = FALSE /\ last' = <<>>
    /\ UNCHANGED <<mtRegs, spiRegs, uartRegs, gpioRegs>>

mtimer_enable_1 ==
    /\ pc = "en1"
    /\ tmp' = CR /\ Access("ld", "CR", CR)
    /\ Goto("en2")
    /\ UNCHANGED <<mtRegs, spiRegs, uartRegs, gpioRegs, ret, ghost>>

mtimer_enable_2 ==
    /\ pc = "en2"
    /\ CR' = SET_FLAG(tmp, MTIMER_CR_EN_MASK)
    /\ Access("st", "CR", SET_FLAG(tmp, MTIMER_CR_EN_MASK))
    /\ Goto("en_ret")
    /\ UNCHANGED <<MTIMEL, MTIMEH, MTIMECMPL, MTIMECMPH, spiRegs, uartRegs, gpioRegs,
                   tmp, ret, ghost>>

call_mtimer_disable ==
    /\ Enter("mtimer_disable", NoVal, "dis1")
    /\ pre' = mtRegs /\ above' = FALSE /\ last' = <<>>
    /\ UNCHANGED <<mtRegs, spiRegs, uartRegs, gpioRegs>>

mtimer_disable_1 ==
    /\ pc = "dis1"
    /\ tmp' = CR /\ Access("ld", "CR", CR)
    /\ Goto("dis2")
    /\ UNCHANGED <<mtRegs, spiRegs, uartRegs, gpioRegs, ret, ghost>>

mtimer_disable_2 ==
    /\ pc = "dis2"
    /\ CR' = CLR_FLAG(tmp, MTIMER_CR_EN_MASK)
    /\ Access("st", "CR", CLR_FLAG(tmp, MTIMER_CR_EN_MASK))
    /\ Goto("dis_ret")
    /\ UNCHANGED <<MTIMEL, MTIMEH, MTIMECMPL, MTIMECMPH, spiRegs, uartRegs, gpioRegs,
                   tmp, ret, ghost>>
\* An interrupt between two stores of the mtimer_set_compare in progress,
\* whose handler makes a whole call mtimer_set_compare(new_value) of its own:
\* its three stores, one after the other, while the interrupted call stands
\* still.  last records the handler's value and the point of the interruption.
interrupt_mtimer_set_compare(new_value) ==
    /\ pc \in {"cmp2", "cmp3"}
    /\ last = <<>>
    /\ LET cmpl_1 == AllOnes
           cmph_2 == HighWord(new_value)
           cmpl_3 == LowWord(new_value)
       IN  MTIMECMPH' = cmph_2 /\ MTIMECMPL' = cmpl_3
    /\ last' = <<"isr", new_value, pc>>
    /\ UNCHANGED <<CR, MTIMEL, MTIMEH, spiRegs, uartRegs, gpioRegs, prog,
                   pre, above, ticked, latched, ticks>>

InitIdleMTimer ==
    /\ CR = 0 /\ MTIMEL = 0 /\ MTIMEH = 0 /\ MTIMECMPL = 0 /\ MTIMECMPH = 0

InitIdleGpio ==
    /\ OE = 0 /\ OUT = 0 /\ PINS = 0

InitIdleSpi ==
    /\ CPOL = 0 /\ CPHA = 0 /\ CHIP_SELECT = 0 /\ CLOCK_CONF = 0
    /\ SPI_WDATA = 0 /\ SPI_RDATA = 0 /\ BUSY = 0

InitIdleUart ==
    /\ UART_WDATA = 0 /\ UART_RDATA = 0 /\ READY = 1 /\ RXSTATUS = 0

InitMT == InitProg /\ InitMTimer /\ InitIdleSpi /\ InitIdleUart /\ InitIdleGpio

NextMT ==
    \/ \E n \in EdgeDWords : call_mtimer_set_compare(n)
    \/ mtimer_set_compare_1
    \/ mtimer_set_compare_2
    \/ mtimer_set_compare_3
    \/ \E v \in EdgeDWords : call_mtimer_set_counter(v)
    \/ mtimer_set_counter_1
    \/ mtimer_set_counter_2
    \/ call_mtimer_get_counter
    \/ mtimer_get_counter_1
    \/ mtimer_get_counter_2
    \/ call_mtimer_clear_counter
    \/ mtimer_clear_counter_1
    \/ mtimer_clear_counter_2
    \/ call_mtimer_enable
    \/ mtimer_enable_1
    \/ mtimer_enable_2
    \/ call_mtimer_disable
    \/ mtimer_disable_1
    \/ mtimer_disable_2
    \/ Return
    \/ Tick

SpecMTimer == InitMT /\ [][NextMT]_vars

\* mtimer_set_compare in the main context and in an interrupt handler; the
\* counter stands still.
InitIrq ==
    /\ InitProg /\ InitIdleSpi /\ InitIdleUart /\ InitIdleGpio
    /\ CR = 0 /\ MTIMEL = 0 /\ MTIMEH = 0
    /\ MTIMECMPL \in EdgeWords /\ MTIMECMPH \in EdgeWords

NextIrq ==
    \/ \E n \in EdgeDWords : call_mtimer_set_compare(n)
    \/ mtimer_set_compare_1
    \/ mtimer_set_compare_2
    \/ mtimer_set_compare_3
    \/ \E m \in EdgeDWords : interrupt_mtimer_set_compare(m)
    \/ Return

SpecMTimerIrq == InitIrq /\ [][NextIrq]_vars

\* -------------------------------------------------------------------- SPI
SPI_MODE0_CPOL0_CPHA0 == 0
SPI_MODE1_CPOL0_CPHA1 == 1
SPI_MODE2_CPOL1_CPHA0 == 2
SPI_MODE3_CPOL1_CPHA1 == 3

\* The arguments of spi_set_mode: the four enumerants and two values that
\* are none of them.
SpiModeArgs == 0 .. (SPI_MODE3_CPOL1_CPHA1 + 2)

InitSpiData ==
    /\ CHIP_SELECT = 0 /\ CLOCK_CONF = 0
    /\ SPI_WDATA = 0
    /\ SPI_RDATA \in {0, RegMod - 1}
    /\ BUSY \in {0, 1}

InitSpiRegs ==
    /\ CPOL \in {0, 1} /\ CPHA \in {0, 1}
    /\ InitSpiData

\* The hardware: a store to WDATA starts a transfer and raises BUSY; the end
\* of the transfer latches the byte received into RDATA and clears BUSY.
HwSpiStart == BUSY' = 1

HwSpiDone ==
    /\ BUSY = 1
    /\ BUSY' = 0
    /\ SPI_RDATA' \in RxValues
    /\ latched' = (pc # "idle")
    /\ UNCHANGED <<CPOL, CPHA, CHIP_SELECT, CLOCK_CONF, SPI_WDATA>>
    /\ UNCHANGED <<mtRegs, uartRegs, gpioRegs, prog, pre, above, ticked, ticks, last>>

\* Mutant: spi_set_cpol stores whatever value it is given.
set_cpol_body_unchecked(cpol) ==
    CPOL' = cpol /\ Access("st", "CPOL", cpol)
\* The body of spi_set_cpol / spi_set_cpha: a value other than 0 or 1 is ignored.
set_cpol_body(cpol) ==
    IF cpol <= 1
    THEN CPOL' = cpol /\ Access("st", "CPOL", cpol)
    ELSE UNCHANGED <<CPOL, log>>

\* Mutant: spi_set_cpha stores whatever value it is given.
set_cpha_body_unchecked(cpha) ==
    CPHA' = cpha /\ Access("st", "CPHA", cpha)
set_cpha_body(cpha) ==
    IF cpha <= 1
    THEN CPHA' = cpha /\ Access("st", "CPHA", cpha)
    ELSE UNCHANGED <<CPHA, log>>

call_spi_set_cpol(cpol) ==
    /\ Enter("spi_set_cpol", cpol, "cpol1")
    /\ pre' = spiRegs /\ above' = FALSE /\ last' = <<>>
    /\ UNCHANGED <<mtRegs, spiRegs, uartRegs, gpioRegs>>

spi_set_cpol_1 ==
    /\ pc = "cpol1"
    /\ set_cpol_body(arg)
    /\ Goto("cpol_ret")
    /\ UNCHANGED <<CPHA, CHIP_SELECT, CLOCK_CONF, SPI_WDATA, SPI_RDATA, BUSY>>
    /\ UNCHANGED <<mtRegs, uartRegs, gpioRegs, tmp, ret, ghost>>

call_spi_set_cpha(cpha) ==
    /\ Enter("spi_set_cpha", cpha, "cpha1")
    /\ pre' = spiRegs /\ above' = FALSE /\ last' = <<>>
    /\ UNCHANGED <<mtRegs, spiRegs, uartRegs, gpioRegs>>

spi_set_cpha_1 ==
    /\ pc = "cpha1"
    /\ set_cpha_body(arg)
    /\ Goto("cpha_ret")
    /\ UNCHANGED <<CPOL, CHIP_SELECT, CLOCK_CONF, SPI_WDATA, SPI_RDATA, BUSY>>
    /\ UNCHANGED <<mtRegs, uartRegs, gpioRegs, tmp, ret, ghost>>

\* The cases of the switch of spi_set_mode.
IsSpiMode(mode) ==
    mode \in {SPI_MODE0_CPOL0_CPHA0, SPI_MODE1_CPOL0_CPHA1,
              SPI_MODE2_CPOL1_CPHA0, SPI_MODE3_CPOL1_CPHA1}

ModeCpol(mode) ==
    CASE mode = SPI_MODE0_CPOL0_CPHA0 -> 0
      [] mode = SPI_MODE1_CPOL0_CPHA1 -> 0
      [] mode = SPI_MODE2_CPOL1_CPHA0 -> 1
      [] mode = SPI_MODE3_CPOL1_CPHA1 -> 1

\* Mutant: the clock phase of a mode taken to be its clock polarity.
ModeCphaAsCpol(mode) == ModeCpol(mode)
ModeCpha(mode) ==
    CASE mode = SPI_MODE0_CPOL0_CPHA0 -> 0
      [] mode = SPI_MODE1_CPOL0_CPHA1 -> 1
      [] mode = SPI_MODE2_CPOL1_CPHA0 -> 0
      [] mode = SPI_MODE3_CPOL1_CPHA1 -> 1

call_spi_set_mode(mode) ==
    /\ Enter("spi_set_mode", mode, IF IsSpiMode(mode) THEN "mode1" ELSE "mode_ret")
    /\ pre' = spiRegs /\ above' = FALSE /\ last' = <<>>
    /\ UNCHANGED <<mtRegs, spiRegs, uartRegs, gpioRegs>>

spi_set_mode_1 ==
    /\ pc = "mode1"
    /\ set_cpol_body(ModeCpol(arg))
    /\ Goto("mode2")
    /\ UNCHANGED <<CPHA, CHIP_SELECT, CLOCK_CONF, SPI_WDATA, SPI_RDATA, BUSY>>
    /\ UNCHANGED <<mtRegs, uartRegs, gpioRegs, tmp, ret, ghost>>

spi_set_mode_2 ==
    /\ pc = "mode2"
    /\ set_cpha_body(ModeCpha(arg))
    /\ Goto("mode_ret")
    /\ last' = <<"mode", arg>>
    /\ UNCHANGED <<CPOL, CHIP_SELECT, CLOCK_CONF, SPI_WDATA, SPI_RDATA, BUSY>>
    /\ UNCHANGED <<mtRegs, uartRegs, gpioRegs, tmp, ret, pre, above, ticked, ticks, latched>>

call_spi_get_mode ==
    /\ Enter("spi_get_mode", NoVal, "gm1")
    /\ pre' = NoVal /\ above' = FALSE
    /\ UNCHANGED <<mtRegs, spiRegs, uartRegs, gpioRegs, last>>

ModeValue(cpha, cpol) == BitOr(ShiftLeft(cpha, 1), cpol)

\* The two loads are operands of |, in either order.
spi_get_mode_1 ==
    /\ pc = "gm1"
    /\ ret' = ModeValue(CPHA, CPOL)
    /\ \/ log' = log \o << <<"ld", "CPHA", CPHA>>, <<"ld", "CPOL", CPOL>> >>
       \/ log' = log \o << <<"ld", "CPOL", CPOL>>, <<"ld", "CPHA", CPHA>> >>
    /\ Goto("gm_ret")
    /\ UNCHANGED <<mtRegs, spiRegs, uartRegs, gpioRegs, tmp, ghost>>

\* The loads of the wait in progress that found the device not ready.
RECURSIVE Spins(_)
Spins(l) ==
    IF l = <<>> \/ l[Len(l)][1] # "ld" THEN 0
    ELSE 1 + Spins(SubSeq(l, 1, Len(l) - 1))

\* Mutant: the test of BUSY inverted.
spi_is_ready_inverted(busy) == busy # 0
spi_is_ready(busy) == busy = 0

AfterWait(label) ==
    CASE label = "wt_poll" -> "wt_ret"
      [] label = "wr_poll" -> "wr_ret"
      [] label = "xf_poll" -> "xf_rd"

call_spi_wait_ready ==
    /\ Enter("spi_wait_ready", NoVal, "wt_poll")
    /\ pre' = BUSY /\ above' = FALSE /\ last' = <<>>
    /\ UNCHANGED <<mtRegs, spiRegs, uartRegs, gpioRegs>>

\* One turn of the loop of spi_wait_ready, in spi_write and spi_transfer too.
spi_wait_ready_loop ==
    /\ pc \in {"wt_poll", "wr_poll", "xf_poll"}
    /\ IF spi_is_ready(BUSY)
       THEN Goto(AfterWait(pc))
       ELSE Spins(log) < MaxPolls /\ Goto(pc)
    /\ Access("ld", "BUSY", BUSY)
    /\ UNCHANGED <<mtRegs, spiRegs, uartRegs, gpioRegs, tmp, ret, ghost>>

call_spi_write(wdata) ==
    /\ Enter("spi_write", wdata, "wr1")
    /\ pre' = BUSY /\ above' = FALSE /\ last' = <<>>
    /\ UNCHANGED <<mtRegs, spiRegs, uartRegs, gpioRegs>>

\* Mutant: spi_write returns without waiting for the transfer to end.
spi_write_1_no_wait ==
    /\ pc = "wr1"
    /\ SPI_WDATA' = arg
    /\ HwSpiStart
    /\ Access("st", "SPI_WDATA", arg)
    /\ Goto("wr_ret")
    /\ latched' = FALSE
    /\ UNCHANGED <<CPOL, CPHA, CHIP_SELECT, CLOCK_CONF, SPI_RDATA>>
    /\ UNCHANGED <<mtRegs, uartRegs, gpioRegs, tmp, ret, pre, above, ticked, ticks, last>>
spi_write_1 ==
    /\ pc = "wr1"
    /\ SPI_WDATA' = arg
    /\ HwSpiStart
    /\ Access("st", "SPI_WDATA", arg)
    /\ Goto("wr_poll")
    /\ latched' = FALSE
    /\ UNCHANGED <<CPOL, CPHA, CHIP_SELECT, CLOCK_CONF, SPI_RDATA>>
    /\ UNCHANGED <<mtRegs, uartRegs, gpioRegs, tmp, ret, pre, above, ticked, ticks, last>>

call_spi_transfer(wdata) ==
    /\ Enter("spi_transfer", wdata, "xf1")
    /\ pre' = BUSY /\ above' = FALSE /\ last' = <<>>
    /\ UNCHANGED <<mtRegs, spiRegs, uartRegs, gpioRegs>>

\* Mutant: the result is read without waiting for the transfer to end.
spi_transfer_1_no_wait ==
    /\ pc = "xf1"
    /\ SPI_WDATA' = arg
    /\ HwSpiStart
    /\ Access("st", "SPI_WDATA", arg)
    /\ Goto("xf_rd")
    /\ latched' = FALSE
    /\ UNCHANGED <<CPOL, CPHA, CHIP_SELECT, CLOCK_CONF, SPI_RDATA>>
    /\ UNCHANGED <<mtRegs, uartRegs, gpioRegs, tmp, ret, pre, above, ticked, ticks, last>>

spi_transfer_1 ==
    /\ pc = "xf1"
    /\ SPI_WDATA' = arg
    /\ HwSpiStart
    /\ Access("st", "SPI_WDATA", arg)
    /\ Goto("xf_poll")
    /\ latched' = FALSE
    /\ UNCHANGED <<CPOL, CPHA, CHIP_SELECT, CLOCK_CONF, SPI_RDATA>>
    /\ UNCHANGED <<mtRegs, uartRegs, gpioRegs, tmp, ret, pre, above, ticked, ticks, last>>

spi_transfer_2 ==
    /\ pc = "xf_rd"
    /\ ret' = ToByte(SPI_RDATA)
    /\ Access("ld", "SPI_RDATA", SPI_RDATA)
    /\ Goto("xf_ret")
    /\ UNCHANGED <<mtRegs, spiRegs, uartRegs, gpioRegs, tmp, ghost>>

call_spi_select(peripheral_id) ==
    /\ Enter("spi_select", peripheral_id, "sel1")
    /\ pre' = spiRegs /\ above' = FALSE /\ last' = <<>>
    /\ UNCHANGED <<mtRegs, spiRegs, uartRegs, gpioRegs>>

spi_select_1 ==
    /\ pc = "sel1"
    /\ CHIP_SELECT' = arg /\ Access("st", "CHIP_SELECT", arg)
    /\ last' = <<"select", arg>>
    /\ Goto("sel_ret")
    /\ UNCHANGED <<CPOL, CPHA, CLOCK_CONF, SPI_WDATA, SPI_RDATA, BUSY>>
    /\ UNCHANGED <<mtRegs, uartRegs, gpioRegs, tmp, ret, pre, above, ticked, ticks, latched>>

call_spi_deselect ==
    /\ Enter("spi_deselect", NoVal, "des1")
    /\ pre' = spiRegs /\ above' = FALSE /\ last' = <<>>
    /\ UNCHANGED <<mtRegs, spiRegs, uartRegs, gpioRegs>>

\* The constant 0xffffffff: every bit of the register.
spi_deselect_1 ==
    /\ pc = "des1"
    /\ CHIP_SELECT' = RegMod - 1 /\ Access("st", "CHIP_SELECT", RegMod - 1)
    /\ last' = <<"deselect">>
    /\ Goto("des_ret")
    /\ UNCHANGED <<CPOL, CPHA, CLOCK_CONF, SPI_WDATA, SPI_RDATA, BUSY>>
    /\ UNCHANGED <<mtRegs, uartRegs, gpioRegs, tmp, ret, pre, above, ticked, ticks, latched>>

call_spi_get_cs ==
    /\ Enter("spi_get_cs", NoVal, "cs1")
    /\ pre' = spiRegs /\ above' = FALSE
    /\ last' = IF last # <<>> /\ last[1] \in {"select", "deselect"} THEN last ELSE <<>>
    /\ UNCHANGED <<mtRegs, spiRegs, uartRegs, gpioRegs>>

\* Mutant: the register value returned without the conversion to uint8_t.
spi_get_cs_1_unconverted ==
    /\ pc = "cs1"
    /\ ret' = CHIP_SELECT
    /\ Access("ld", "CHIP_SELECT", CHIP_SELECT)
    /\ Goto("cs_ret")
    /\ UNCHANGED <<mtRegs, spiRegs, uartRegs, gpioRegs, tmp, ghost>>

spi_get_cs_1 ==
    /\ pc = "cs1"
    /\ ret' = ToByte(CHIP_SELECT)
    /\ Access("ld", "CHIP_SELECT", CHIP_SELECT)
    /\ Goto("cs_ret")
    /\ UNCHANGED <<mtRegs, spiRegs, uartRegs, gpioRegs, tmp, ghost>>
InitSpi == InitProg /\ InitIdleMTimer /\ InitSpiRegs /\ InitIdleUart /\ InitIdleGpio

\* The SPI functions called from a controller that is idle to begin with.
InitSpiIdle == InitSpi /\ BUSY = 0
NextSpi ==
    \/ \E c \in Bytes : call_spi_set_cpol(c)
    \/ spi_set_cpol_1
    \/ \E c \in Bytes : call_spi_set_cpha(c)
    \/ spi_set_cpha_1
    \/ \E id \in Bytes : call_spi_select(id)
    \/ spi_select_1
    \/ call_spi_deselect
    \/ spi_deselect_1
    \/ call_spi_get_cs
    \/ spi_get_cs_1
    \/ \E m \in SpiModeArgs : call_spi_set_mode(m)
    \/ spi_set_mode_1
    \/ spi_set_mode_2
    \/ call_spi_get_mode
    \/ spi_get_mode_1
    \/ call_spi_wait_ready
    \/ spi_wait_ready_loop
    \/ \E b \in TxBytes : call_spi_write(b)
    \/ spi_write_1
    \/ \E b \in TxBytes : call_spi_transfer(b)
    \/ spi_transfer_1
    \/ spi_transfer_2
    \/ HwSpiDone
    \/ Return

SpecSpi == InitSpi /\ [][NextSpi]_vars
SpecSpiIdle == InitSpiIdle /\ [][NextSpi]_vars

\* ------------------------------------------------------------------- UART
InitUartRegs ==
    /\ UART_WDATA = 0 /\ UART_RDATA = 0 /\ RXSTATUS = 0
    /\ READY \in {0, 1}

\* The hardware: a store to WDATA starts sending the byte and clears READY,
\* which is set again when the byte has been sent.
HwUartStart == READY' = 0

HwUartDone ==
    /\ READY = 0
    /\ READY' = 1
    /\ UNCHANGED <<UART_WDATA, UART_RDATA, RXSTATUS>>
    /\ UNCHANGED <<mtRegs, spiRegs, gpioRegs, prog, ghost>>

\* Mutant: the byte is written whatever READY reads.
uart_ready_to_send_always(ready) == TRUE
\* Mutant: READY is compared with a value it never takes.
uart_ready_to_send_never(ready) == ready = 2
uart_ready_to_send(ready) == ready = 1

\* C strings: the bytes before the terminating null byte, and that byte.
NonNull == Bytes \ {0}
CStrings == UNION {[1 .. n -> NonNull] : n \in 0 .. MaxStrLen}
Terminated(s) == s \o <<0>>

call_uart_write(data) ==
    /\ Enter("uart_write", data, "uw_poll")
    /\ pre' = READY /\ above' = FALSE /\ last' = <<>>
    /\ UNCHANGED <<mtRegs, spiRegs, uartRegs, gpioRegs>>

\* One turn of the loop of uart_write, in uart_write_string too.
uart_write_loop ==
    /\ pc \in {"uw_poll", "ws_poll"}
    /\ IF uart_ready_to_send(READY)
       THEN Goto(IF pc = "uw_poll" THEN "uw_st" ELSE "ws_st")
       ELSE Spins(log) < MaxPolls /\ Goto(pc)
    /\ Access("ld", "READY", READY)
    /\ UNCHANGED <<mtRegs, spiRegs, uartRegs, gpioRegs, tmp, ret, ghost>>

uart_write_store ==
    /\ pc = "uw_st"
    /\ UART_WDATA' = arg
    /\ HwUartStart
    /\ Access("st", "UART_WDATA", arg)
    /\ Goto("uw_ret")
    /\ UNCHANGED <<UART_RDATA, RXSTATUS, mtRegs, spiRegs, gpioRegs, tmp, ret, ghost>>

\* arg is the string in memory, tmp the index str points at.
call_uart_write_string(str) ==
    /\ pc = "idle"
    /\ pc' = "ws_test" /\ op' = "uart_write_string" /\ arg' = Terminated(str)
    /\ tmp' = 1 /\ ret' = NoVal /\ log' = <<>> /\ ticked' = FALSE /\ latched' = FALSE /\ ticks' = 0
    /\ pre' = READY /\ above' = FALSE /\ last' = <<>>
    /\ UNCHANGED <<mtRegs, spiRegs, uartRegs, gpioRegs>>

uart_write_string_test ==
    /\ pc = "ws_test"
    /\ Goto(IF arg[tmp] # 0 THEN "ws_poll" ELSE "ws_ret")
    /\ UNCHANGED <<mtRegs, spiRegs, uartRegs, gpioRegs, tmp, ret, log, ghost>>

uart_write_string_store ==
    /\ pc = "ws_st"
    /\ UART_WDATA' = ToByte(arg[tmp])
    /\ HwUartStart
    /\ Access("st", "UART_WDATA", UART_WDATA')
    /\ tmp' = tmp + 1
    /\ Goto("ws_test")
    /\ UNCHANGED <<UART_RDATA, RXSTATUS, mtRegs, spiRegs, gpioRegs, ret, ghost>>

InitUart == InitProg /\ InitIdleMTimer /\ InitIdleSpi /\ InitUartRegs /\ InitIdleGpio

NextUart ==
    \/ \E b \in TxBytes : call_uart_write(b)
    \/ uart_write_loop
    \/ uart_write_store
    \/ \E str \in CStrings : call_uart_write_string(str)
    \/ uart_write_string_test
    \/ uart_write_string_store
    \/ HwUartDone
    \/ Return

SpecUart == InitUart /\ [][NextUart]_vars

\* ------------------------------------------------------------------- GPIO
LOW == 0
HIGH == 1

PinIds == 0 .. (NumPins - 1)
Masks == 0 .. (GpioMod - 1)
\* The values gpio_write is called with: LOW, HIGH and one that is neither.
WriteValues == LOW .. (HIGH + 1)

InitGpioRegs ==
    /\ OE \in Masks /\ OUT \in Masks /\ PINS \in Masks

\* The hardware: a pin whose OE bit is set is driven from its OUT bit, any
\* other pin has the level applied to it from outside; IN reads the pins.
InOf(oe, out, pins) == BitOr(BitAnd(out, oe), CLR_FLAG(pins, oe))
GPIO_IN == InOf(OE, OUT, PINS)
\* The hardware: a store to SET sets, a store to CLR clears the flagged bits
\* of OUT.
HwGpioSet(mask) == OUT' = BitOr(OUT, mask)
HwGpioClr(mask) == OUT' = OUT - BitAnd(OUT, mask)

\* last, for the GPIO: <<"output", p>> once gpio_set_output(p) has stored,
\* <<"driven", p, v>> once gpio_write(p, v) has stored after it, and
\* <<"input", p, level, wrote>> once gpio_set_input(p) has stored, with the
\* level read(p) had then and whether a write, set, clear or toggle of p has
\* stored since; <<>> after anything else.
AboutPin(p) == last # <<>> /\ last[1] \in {"output", "driven", "input"} /\ last[2] = p
KeepLast(p) == last' = IF AboutPin(p) THEN last ELSE <<>>
Wrote(p) ==
    last' = IF AboutPin(p) /\ last[1] = "input"
            THEN <<"input", p, last[3], TRUE>>
            ELSE <<>>

\* The level applied to a pin from outside changes.
ExtChange ==
    \E p \in PinIds :
        /\ PINS' = INV_BIT(PINS, p)
        /\ last' = IF AboutPin(p) /\ last[1] = "input" THEN <<>> ELSE last
        /\ UNCHANGED <<OE, OUT, mtRegs, spiRegs, uartRegs, prog,
                       pre, above, ticked, ticks, latched>>

EnterGpio(name, a, label) ==
    /\ Enter(name, a, label)
    /\ pre' = <<OE, OUT>> /\ above' = FALSE
    /\ UNCHANGED <<mtRegs, spiRegs, uartRegs, gpioRegs>>

GpioLoad(from, to, reg, v) ==
    /\ pc = from
    /\ tmp' = v /\ Access("ld", reg, v) /\ Goto(to)
    /\ UNCHANGED <<mtRegs, spiRegs, uartRegs, gpioRegs, ret, ghost>>

call_gpio_set_output(pin_id) ==
    /\ EnterGpio("gpio_set_output", pin_id, "so1")
    /\ last' = <<>>

gpio_set_output_1 == GpioLoad("so1", "so2", "OE", OE)

\* Mutant: gpio_set_output clears the pin's bit of OE.
gpio_set_output_2_clears ==
    /\ pc = "so2"
    /\ OE' = CLR_BIT(tmp, arg) /\ Access("st", "OE", CLR_BIT(tmp, arg))
    /\ last' = <<"output", arg>>
    /\ Goto("so_ret")
    /\ UNCHANGED <<OUT, PINS, mtRegs, spiRegs, uartRegs, tmp, ret,
                   pre, above, ticked, ticks, latched>>
gpio_set_output_2 ==
    /\ pc = "so2"
    /\ OE' = SET_BIT(tmp, arg) /\ Access("st", "OE", SET_BIT(tmp, arg))
    /\ last' = <<"output", arg>>
    /\ Goto("so_ret")
    /\ UNCHANGED <<OUT, PINS, mtRegs, spiRegs, uartRegs, tmp, ret,
                   pre, above, ticked, ticks, latched>>

call_gpio_set_input(pin_id) ==
    /\ EnterGpio("gpio_set_input", pin_id, "si1")
    /\ last' = <<>>

gpio_set_input_1 == GpioLoad("si1", "si2", "OE", OE)

\* Mutant: gpio_set_input sets the pin's bit of OE.
gpio_set_input_2_sets ==
    /\ pc = "si2"
    /\ OE' = SET_BIT(tmp, arg) /\ Access("st", "OE", SET_BIT(tmp, arg))
    /\ last' = <<"input", arg, READ_BIT(InOf(CLR_BIT(tmp, arg), OUT, PINS), arg), FALSE>>
    /\ Goto("si_ret")
    /\ UNCHANGED <<OUT, PINS, mtRegs, spiRegs, uartRegs, tmp, ret,
                   pre, above, ticked, ticks, latched>>
gpio_set_input_2 ==
    /\ pc = "si2"
    /\ OE' = CLR_BIT(tmp, arg) /\ Access("st", "OE", CLR_BIT(tmp, arg))
    /\ last' = <<"input", arg, READ_BIT(InOf(CLR_BIT(tmp, arg), OUT, PINS), arg), FALSE>>
    /\ Goto("si_ret")
    /\ UNCHANGED <<OUT, PINS, mtRegs, spiRegs, uartRegs, tmp, ret,
                   pre, above, ticked, ticks, latched>>

call_gpio_read(pin_id) ==
    /\ EnterGpio("gpio_read", pin_id, "rd1")
    /\ KeepLast(pin_id)

gpio_read_1 ==
    /\ pc = "rd1"
    /\ ret' = READ_BIT(GPIO_IN, arg) /\ Access("ld", "IN", GPIO_IN)
    /\ Goto("rd_ret")
    /\ UNCHANGED <<mtRegs, spiRegs, uartRegs, gpioRegs, tmp, ghost>>

\* Mutant: gpio_write takes every value other than LOW for HIGH.
call_gpio_write_nonzero_is_high(pin_id, value) ==
    /\ EnterGpio("gpio_write", <<pin_id, value>>, "gw1")
    /\ KeepLast(pin_id)
\* gpio_write: the pin_id in arg[1], the value in arg[2].
call_gpio_write(pin_id, value) ==
    /\ EnterGpio("gpio_write", <<pin_id, value>>,
                 IF value = LOW \/ value = HIGH THEN "gw1" ELSE "gw_ret")
    /\ KeepLast(pin_id)

gpio_write_1 ==
    /\ pc = "gw1"
    /\ IF arg[2] = LOW
       THEN HwGpioClr(ShiftLeft(1, arg[1])) /\ Access("st", "CLR", ShiftLeft(1, arg[1]))
       ELSE HwGpioSet(ShiftLeft(1, arg[1])) /\ Access("st", "SET", ShiftLeft(1, arg[1]))
    /\ last' = IF AboutPin(arg[1]) /\ last[1] \in {"output", "driven"}
               THEN <<"driven", arg[1], arg[2]>>
               ELSE IF AboutPin(arg[1])
               THEN <<"input", arg[1], last[3], TRUE>>
               ELSE <<>>
    /\ Goto("gw_ret")
    /\ UNCHANGED <<OE, PINS, mtRegs, spiRegs, uartRegs, tmp, ret,
                   pre, above, ticked, ticks, latched>>

call_gpio_set(pin_id) ==
    /\ EnterGpio("gpio_set", pin_id, "gs1")
    /\ KeepLast(pin_id)

\* Mutant: gpio_set stores to OUT the value OUT had at the call with the
\* pin's bit set.
gpio_set_1_stale_out ==
    /\ pc = "gs1"
    /\ OUT' = SET_BIT(pre[2], arg) /\ Access("st", "OUT", SET_BIT(pre[2], arg))
    /\ Wrote(arg)
    /\ Goto("gs_ret")
    /\ UNCHANGED <<OE, PINS, mtRegs, spiRegs, uartRegs, tmp, ret,
                   pre, above, ticked, ticks, latched>>
gpio_set_1 ==
    /\ pc = "gs1"
    /\ HwGpioSet(ShiftLeft(1, arg)) /\ Access("st", "SET", ShiftLeft(1, arg))
    /\ Wrote(arg)
    /\ Goto("gs_ret")
    /\ UNCHANGED <<OE, PINS, mtRegs, spiRegs, uartRegs, tmp, ret,
                   pre, above, ticked, ticks, latched>>

call_gpio_clear(pin_id) ==
    /\ EnterGpio("gpio_clear", pin_id, "gc1")
    /\ KeepLast(pin_id)

gpio_clear_1 ==
    /\ pc = "gc1"
    /\ HwGpioClr(ShiftLeft(1, arg)) /\ Access("st", "CLR", ShiftLeft(1, arg))
    /\ Wrote(arg)
    /\ Goto("gc_ret")
    /\ UNCHANGED <<OE, PINS, mtRegs, spiRegs, uartRegs, tmp, ret,
                   pre, above, ticked, ticks, latched>>

call_gpio_toggle(pin_id) ==
    /\ EnterGpio("gpio_toggle", pin_id, "tg1")
    /\ KeepLast(pin_id)

gpio_toggle_1 == GpioLoad("tg1", "tg2", "OUT", OUT)

gpio_toggle_2 ==
    /\ pc = "tg2"
    /\ OUT' = INV_BIT(tmp, arg) /\ Access("st", "OUT", INV_BIT(tmp, arg))
    /\ Wrote(arg)
    /\ Goto("tg_ret")
    /\ UNCHANGED <<OE, PINS, mtRegs, spiRegs, uartRegs, tmp, ret,
                   pre, above, ticked, ticks, latched>>

call_gpio_is_set(pin_id) ==
    /\ EnterGpio("gpio_is_set", pin_id, "is1")
    /\ KeepLast(pin_id)

gpio_is_set_1 ==
    /\ pc = "is1"
    /\ ret' = (READ_BIT(GPIO_IN, arg) # 0) /\ Access("ld", "IN", GPIO_IN)
    /\ Goto("is_ret")
    /\ UNCHANGED <<mtRegs, spiRegs, uartRegs, gpioRegs, tmp, ghost>>

call_gpio_is_clear(pin_id) ==
    /\ EnterGpio("gpio_is_clear", pin_id, "ic1")
    /\ KeepLast(pin_id)

gpio_is_clear_1 ==
    /\ pc = "ic1"
    /\ ret' = (READ_BIT(GPIO_IN, arg) = 0) /\ Access("ld", "IN", GPIO_IN)
    /\ Goto("ic_ret")
    /\ UNCHANGED <<mtRegs, spiRegs, uartRegs, gpioRegs, tmp, ghost>>

call_gpio_set_output_group(bit_mask) ==
    /\ EnterGpio("gpio_set_output_group", bit_mask, "sog1")
    /\ last' = <<>>

gpio_set_output_group_1 == GpioLoad("sog1", "sog2", "OE", OE)

gpio_set_output_group_2 ==
    /\ pc = "sog2"
    /\ OE' = SET_FLAG(tmp, arg) /\ Access("st", "OE", SET_FLAG(tmp, arg))
    /\ Goto("sog_ret")
    /\ UNCHANGED <<OUT, PINS, mtRegs, spiRegs, uartRegs, tmp, ret, ghost>>

call_gpio_set_input_group(bit_mask) ==
    /\ EnterGpio("gpio_set_input_group", bit_mask, "sig1")
    /\ last' = <<>>

gpio_set_input_group_1 == GpioLoad("sig1", "sig2", "OE", OE)

gpio_set_input_group_2 ==
    /\ pc = "sig2"
    /\ OE' = CLR_FLAG(tmp, arg) /\ Access("st", "OE", CLR_FLAG(tmp, arg))
    /\ Goto("sig_ret")
    /\ UNCHANGED <<OUT, PINS, mtRegs, spiRegs, uartRegs, tmp, ret, ghost>>

call_gpio_read_all ==
    /\ EnterGpio("gpio_read_all", NoVal, "ra1")
    /\ last' = <<>>

gpio_read_all_1 ==
    /\ pc = "ra1"
    /\ ret' = GPIO_IN /\ Access("ld", "IN", GPIO_IN)
    /\ Goto("ra_ret")
    /\ UNCHANGED <<mtRegs, spiRegs, uartRegs, gpioRegs, tmp, ghost>>

call_gpio_write_group(value_mask) ==
    /\ EnterGpio("gpio_write_group", value_mask, "wg1")
    /\ last' = <<>>

\* Mutant: gpio_write_group stores the mask to SET.
gpio_write_group_1_via_set ==
    /\ pc = "wg1"
    /\ HwGpioSet(arg) /\ Access("st", "SET", arg)
    /\ Goto("wg_ret")
    /\ UNCHANGED <<OE, PINS, mtRegs, spiRegs, uartRegs, tmp, ret, ghost>>
gpio_write_group_1 ==
    /\ pc = "wg1"
    /\ OUT' = arg /\ Access("st", "OUT", arg)
    /\ Goto("wg_ret")
    /\ UNCHANGED <<OE, PINS, mtRegs, spiRegs, uartRegs, tmp, ret, ghost>>

call_gpio_set_group(bit_mask) ==
    /\ EnterGpio("gpio_set_group", bit_mask, "sg1")
    /\ last' = <<>>

\* Mutant: gpio_set_group stores the mask to CLR.
gpio_set_group_1_clears ==
    /\ pc = "sg1"
    /\ HwGpioClr(arg) /\ Access("st", "CLR", arg)
    /\ Goto("sg_ret")
    /\ UNCHANGED <<OE, PINS, mtRegs, spiRegs, uartRegs, tmp, ret, ghost>>
gpio_set_group_1 ==
    /\ pc = "sg1"
    /\ HwGpioSet(arg) /\ Access("st", "SET", arg)
    /\ Goto("sg_ret")
    /\ UNCHANGED <<OE, PINS, mtRegs, spiRegs, uartRegs, tmp, ret, ghost>>

call_gpio_clear_group(bit_mask) ==
    /\ EnterGpio("gpio_clear_group", bit_mask, "cg1")
    /\ last' = <<>>

gpio_clear_group_1 ==
    /\ pc = "cg1"
    /\ HwGpioClr(arg) /\ Access("st", "CLR", arg)
    /\ Goto("cg_ret")
    /\ UNCHANGED <<OE, PINS, mtRegs, spiRegs, uartRegs, tmp, ret, ghost>>

call_gpio_toggle_group(bit_mask) ==
    /\ EnterGpio("gpio_toggle_group", bit_mask, "tgg1")
    /\ last' = <<>>

gpio_toggle_group_1 == GpioLoad("tgg1", "tgg2", "OUT", OUT)

gpio_toggle_group_2 ==
    /\ pc = "tgg2"
    /\ OUT' = INV_FLAG(tmp, arg) /\ Access("st", "OUT", INV_FLAG(tmp, arg))
    /\ Goto("tgg_ret")
    /\ UNCHANGED <<OE, PINS, mtRegs, spiRegs, uartRegs, tmp, ret, ghost>>

InitGpio == InitProg /\ InitIdleMTimer /\ InitIdleSpi /\ InitIdleUart /\ InitGpioRegs

NextGpio ==
    \/ ExtChange
    \/ \E p \in PinIds : call_gpio_set_output(p)
    \/ gpio_set_output_1
    \/ gpio_set_output_2
    \/ \E p \in PinIds : call_gpio_set_input(p)
    \/ gpio_set_input_1
    \/ gpio_set_input_2
    \/ \E p \in PinIds : call_gpio_read(p)
    \/ gpio_read_1
    \/ \E p \in PinIds, v \in WriteValues : call_gpio_write(p, v)
    \/ gpio_write_1
    \/ \E p \in PinIds : call_gpio_set(p)
    \/ gpio_set_1
    \/ \E p \in PinIds : call_gpio_clear(p)
    \/ gpio_clear_1
    \/ \E p \in PinIds : call_gpio_toggle(p)
    \/ gpio_toggle_1
    \/ gpio_toggle_2
    \/ \E p \in PinIds : call_gpio_is_set(p)
    \/ gpio_is_set_1
    \/ \E p \in PinIds : call_gpio_is_clear(p)
    \/ gpio_is_clear_1
    \/ \E m \in Masks : call_gpio_set_output_group(m)
    \/ gpio_set_output_group_1
    \/ gpio_set_output_group_2
    \/ \E m \in Masks : call_gpio_set_input_group(m)
    \/ gpio_set_input_group_1
    \/ gpio_set_input_group_2
    \/ call_gpio_read_all
    \/ gpio_read_all_1
    \/ \E m \in Masks : call_gpio_write_group(m)
    \/ gpio_write_group_1
    \/ \E m \in Masks : call_gpio_set_group(m)
    \/ gpio_set_group_1
    \/ \E m \in Masks : call_gpio_clear_group(m)
    \/ gpio_clear_group_1
    \/ \E m \in Masks : call_gpio_toggle_group(m)
    \/ gpio_toggle_group_1
    \/ gpio_toggle_group_2
    \/ Return

SpecGpio == InitGpio /\ [][NextGpio]_vars

\* The pins the call in progress is about, as a mask.
MainMask ==
    IF op \in {"gpio_set", "gpio_clear"} THEN ShiftLeft(1, arg) ELSE arg

\* An interrupt during a gpio_set, gpio_clear, gpio_set_group or
\* gpio_clear_group call, before or after its store, whose handler makes a
\* whole call of one of the four for pins the interrupted call is not about.
\* pre records the handler's call after OE and OUT: the register it stored
\* to and the mask.
MayInterrupt(mask) ==
    /\ op \in {"gpio_set", "gpio_clear", "gpio_set_group", "gpio_clear_group"}
    /\ Len(pre) = 2
    /\ BitAnd(MainMask, mask) = 0

interrupt_gpio_set(pin_id) ==
    /\ MayInterrupt(ShiftLeft(1, pin_id))
    /\ HwGpioSet(ShiftLeft(1, pin_id))
    /\ pre' = pre \o <<"SET", ShiftLeft(1, pin_id)>>
    /\ UNCHANGED <<OE, PINS, mtRegs, spiRegs, uartRegs, prog,
                   above, ticked, ticks, latched, last>>

interrupt_gpio_clear(pin_id) ==
    /\ MayInterrupt(ShiftLeft(1, pin_id))
    /\ HwGpioClr(ShiftLeft(1, pin_id))
    /\ pre' = pre \o <<"CLR", ShiftLeft(1, pin_id)>>
    /\ UNCHANGED <<OE, PINS, mtRegs, spiRegs, uartRegs, prog,
                   above, ticked, ticks, latched, last>>

interrupt_gpio_set_group(bit_mask) ==
    /\ MayInterrupt(bit_mask)
    /\ HwGpioSet(bit_mask)
    /\ pre' = pre \o <<"SET", bit_mask>>
    /\ UNCHANGED <<OE, PINS, mtRegs, spiRegs, uartRegs, prog,
                   above, ticked, ticks, latched, last>>

interrupt_gpio_clear_group(bit_mask) ==
    /\ MayInterrupt(bit_mask)
    /\ HwGpioClr(bit_mask)
    /\ pre' = pre \o <<"CLR", bit_mask>>
    /\ UNCHANGED <<OE, PINS, mtRegs, spiRegs, uartRegs, prog,
                   above, ticked, ticks, latched, last>>

InitGpioIrq ==
    /\ InitProg /\ InitIdleMTimer /\ InitIdleSpi /\ InitIdleUart
    /\ OE = 0 /\ PINS = 0 /\ OUT \in Masks

NextGpioIrq ==
    \/ \E p \in PinIds : call_gpio_set(p)
    \/ gpio_set_1
    \/ \E p \in PinIds : call_gpio_clear(p)
    \/ gpio_clear_1
    \/ \E m \in Masks : call_gpio_set_group(m)
    \/ gpio_set_group_1
    \/ \E m \in Masks : call_gpio_clear_group(m)
    \/ gpio_clear_group_1
    \/ \E p \in PinIds : interrupt_gpio_set(p)
    \/ \E p \in PinIds : interrupt_gpio_clear(p)
    \/ \E m \in Masks : interrupt_gpio_set_group(m)
    \/ \E m \in Masks : interrupt_gpio_clear_group(m)
    \/ Return

SpecGpioIrq == InitGpioIrq /\ [][NextGpioIrq]_vars

\* ---------------------------------------------------- the two busy waits
InitWait ==
    /\ InitProg /\ InitIdleMTimer
    /\ CPOL = 0 /\ CPHA = 0 /\ InitSpiData
    /\ InitUartRegs /\ InitIdleGpio

\* A step of the call in progress.
Run ==
    \/ spi_wait_ready_loop
    \/ spi_write_1
    \/ spi_transfer_1
    \/ spi_transfer_2
    \/ uart_write_loop
    \/ uart_write_store
    \/ Return

NextWait ==
    \/ call_spi_wait_ready
    \/ \E b \in TxBytes : call_spi_write(b)
    \/ \E b \in TxBytes : call_spi_transfer(b)
    \/ \E b \in TxBytes : call_uart_write(b)
    \/ Run
    \/ HwSpiDone
    \/ HwUartDone

\* The processor goes on executing the call in progress, and the hardware
\* ends the transfer and the transmission it has started.
SpecWait ==
    /\ InitWait /\ [][NextWait]_vars
    /\ WF_vars(Run) /\ WF_vars(HwSpiDone) /\ WF_vars(HwUartDone)

\* ---------------------------------------------------------- MTimer claims
InSetCompare == pc \in {"cmp1", "cmp2", "cmp3", "cmp_ret"}

\* The stores mtimer_set_compare(n) is to perform, in program order.
CompareStores(n) ==
    << <<"st", "MTIMECMPL", WordMax>>,
       <<"st", "MTIMECMPH", n \div WordMod>>,
       <<"st", "MTIMECMPL", n % WordMod>> >>

StoresDone ==
    CASE pc = "cmp1" -> 0
      [] pc = "cmp2" -> 1
      [] pc = "cmp3" -> 2
      [] OTHER -> 3

\* C1: mtimer_set_compare(N) performs exactly three stores and no other
\* access, in program order: MTIMECMPL := all ones, MTIMECMPH := N >> 32,
\* MTIMECMPL := N & 0xFFFFFFFF.  At every point of the call the accesses made
\* so far are the prefix of that sequence, and at the return all three.
C1_ThreeStoresInOrder ==
    InSetCompare => log = SubSeq(CompareStores(arg), 1, StoresDone)

C1_Witness ==
    /\ pc = "cmp_ret" /\ Len(log) = 3
    /\ log[2][3] # pre \div WordMod
    /\ log[3][3] # WordMax

\* C2 as stated: after step 1 and after step 2 the composite compare value
\* is never less than the pre-update value C, for all pairs (C, N).
C2_MonotonicForAllPairs ==
    pc \in {"cmp2", "cmp3"} => Compare >= pre

\* C2 amended: after step 1 the composite compare value is never less than
\* C; after step 2 it is never less than N, and it is never less than C
\* exactly when the high word of N is not smaller than the high word of C.
C2_MonotonicUnlessHighDrops ==
    /\ pc = "cmp2" => Compare >= pre
    /\ pc = "cmp3" =>
          /\ Compare >= arg
          /\ (Compare >= pre) <=> (arg \div WordMod >= pre \div WordMod)

C2_Witness ==
    /\ pc = "cmp3"
    /\ arg \div WordMod < pre \div WordMod
    /\ Compare < pre /\ Compare >= arg

\* C3: if the old and the new compare value are both above the live counter
\* at every point of the update, the composite compare value is above the
\* counter in every state of the call, between the stores included.
C3_NoSpuriousMatch ==
    (InSetCompare /\ above) => Compare > Counter

C3_Witness ==
    /\ pc = "cmp3" /\ above /\ ticked
    /\ MTIMECMPH # pre \div WordMod
    /\ Compare # arg

\* C4: when mtimer_set_compare(N) returns the composite compare value is N,
\* and the call has stored to MTIMECMPL and MTIMECMPH only.
C4_CompareIsNewValue ==
    pc = "cmp_ret" =>
        /\ Compare = arg
        /\ \A i \in 1 .. Len(log) :
              log[i][1] = "st" /\ log[i][2] \in {"MTIMECMPL", "MTIMECMPH"}

C4_Witness ==
    /\ pc = "cmp_ret" /\ Compare = arg
    /\ arg \div WordMod # pre \div WordMod
    /\ arg % WordMod # pre % WordMod

\* C5: with counting disabled, mtimer_get_counter after mtimer_set_counter(v)
\* returns v, the logical counter (MTIMEH << 32) | MTIMEL.
C5_GetCounterReturnsSetValue ==
    (pc = "get_ret" /\ last # <<>> /\ last[1] = "counter") =>
        /\ ret = last[2]
        /\ ret = Counter

\* ------------------------------------------------------------- SPI claims
\* C6: spi_get_mode after spi_set_mode(m) returns m, for m in {0,1,2,3}.
C6_ModeRoundTrip ==
    (pc = "gm_ret" /\ last # <<>> /\ last[1] = "mode") => ret = last[2]

BusyLoad(e) == e[1] = "ld" /\ e[2] = "BUSY"

\* C7: spi_write and spi_transfer return only after a load of BUSY that read
\* 0 and that followed the call's store to WDATA: the accesses of the call
\* are the store, then loads of BUSY that all read non-zero while the call
\* waits, and the wait ends with the first load that reads 0.
C7_ReturnsAfterTransfer ==
    /\ pc \in {"wr_poll", "xf_poll"} =>
          /\ Len(log) >= 1 /\ log[1] = <<"st", "SPI_WDATA", arg>>
          /\ \A i \in 2 .. Len(log) : BusyLoad(log[i]) /\ log[i][3] # 0
    /\ pc \in {"wr_ret", "xf_rd", "xf_ret"} =>
          \E n \in 2 .. Len(log) :
              /\ log[1] = <<"st", "SPI_WDATA", arg>>
              /\ log[n] = <<"ld", "BUSY", 0>>
              /\ \A i \in 2 .. (n - 1) : BusyLoad(log[i]) /\ log[i][3] # 0
              /\ \A i \in (n + 1) .. Len(log) : ~BusyLoad(log[i])

\* spi_write, called while BUSY was 1, has returned after loads of BUSY that read 1.
C7_Witness ==
    /\ pc = "wr_ret" /\ pre = 1
    /\ Len(log) >= 4 /\ log[2] = <<"ld", "BUSY", 1>>

\* C8: spi_transfer(b) loads RDATA once, as its last access, after the store
\* of b to WDATA and right after the load of BUSY that read 0, and returns
\* the low byte of the value loaded, which the hardware latched after that
\* store.
C8_TransferReturnsLatched ==
    /\ pc \in {"xf1", "xf_poll", "xf_rd"} =>
          /\ ret = NoVal
          /\ \A i \in 1 .. Len(log) : log[i][2] # "SPI_RDATA"
    /\ pc = "xf_ret" =>
          LET n == Len(log) IN
          /\ n >= 3
          /\ log[1] = <<"st", "SPI_WDATA", arg>>
          /\ log[n - 1] = <<"ld", "BUSY", 0>>
          /\ log[n] = <<"ld", "SPI_RDATA", SPI_RDATA>>
          /\ \A i \in 1 .. (n - 1) : log[i][2] # "SPI_RDATA"
          /\ ret = log[n][3] % ByteMod
          /\ latched

\* spi_transfer has returned the low byte of a value wider than a byte.
C8_Witness ==
    /\ pc = "xf_ret" /\ Len(log) >= 4
    /\ SPI_RDATA >= ByteMod /\ ret = SPI_RDATA - ByteMod

\* ------------------------------------------------------------ UART claims
Stores(l) == SelectSeq(l, LAMBDA e : e[1] = "st")

\* C9: uart_write_string(s) stores the bytes of s to WDATA, in order and
\* without the terminating null byte, and nothing else; each store comes
\* right after a load of READY that read 1, and a load of READY that read
\* another value is followed by another load; the empty string makes no access.
C9_StringIsPolledWrites ==
    op = "uart_write_string" =>
        /\ \A i \in 1 .. Len(log) :
              /\ log[i][1] = "st" =>
                    /\ log[i][2] = "UART_WDATA"
                    /\ i > 1 /\ log[i - 1] = <<"ld", "READY", 1>>
              /\ log[i][1] = "ld" =>
                    /\ log[i][2] = "READY"
                    /\ (log[i][3] # 1 /\ i < Len(log)) => log[i + 1][1] = "ld"
        /\ pc = "ws_ret" =>
              /\ Len(Stores(log)) = Len(arg) - 1
              /\ \A k \in 1 .. Len(Stores(log)) : Stores(log)[k][3] = arg[k]
              /\ (Len(arg) = 1 => log = <<>>)

\* A string of two different bytes has been written, the device busy in between.
C9_Witness ==
    /\ pc = "ws_ret" /\ Len(arg) = 3 /\ arg[1] # arg[2]
    /\ Len(Stores(log)) = 2
    /\ \E i \in 1 .. Len(log) : log[i] = <<"ld", "READY", 0>>

\* ------------------------------------------------------- busy-wait claims
SpiWaiting == pc \in {"wt_poll", "wr_poll", "xf_poll"}
UartWaiting == pc = "uw_poll"

\* C10: with hardware that ends what it has started, a call waiting in
\* spi_wait_ready (alone, or in spi_write or spi_transfer) or in uart_write
\* leaves its loop; it leaves it only by a load that reads BUSY = 0 (READY = 1),
\* so that it never returns while the device stays busy.
C10_WaitsUntilReady ==
    /\ SpiWaiting ~> ~SpiWaiting
    /\ UartWaiting ~> ~UartWaiting
    /\ [][(SpiWaiting /\ ~SpiWaiting') => (BUSY = 0 /\ pc' = AfterWait(pc))]_vars
    /\ [][(UartWaiting /\ ~UartWaiting') => (READY = 1 /\ pc' = "uw_st")]_vars

\* spi_wait_ready has returned after the greatest number of loads that read busy.
C10_Witness ==
    /\ pc = "wt_ret" /\ pre = 1
    /\ Len(log) = MaxPolls + 1

\* C11: after gpio_set_output(p) and then gpio_write(p, v) with v LOW or
\* HIGH, whatever the registers and the pins were before, gpio_is_set(p)
\* returns true when v is HIGH and false when v is LOW.
C11_DrivenPinReadsBack ==
    (pc = "is_ret" /\ AboutPin(arg) /\ last[1] = "driven")
        => (ret = (last[3] = HIGH))

\* gpio_is_set returns false for a pin driven LOW that is high from outside.
C11_Witness ==
    /\ pc = "is_ret" /\ last = <<"driven", arg, LOW>> /\ ret = FALSE
    /\ READ_BIT(PINS, arg) = 1

StoresTo(reg) == SelectSeq(log, LAMBDA e : e[1] = "st" /\ e[2] = reg)

\* C12: after gpio_set_input(p), gpio_read(p) returns the level it had then
\* whatever gpio_write, gpio_set, gpio_clear and gpio_toggle calls on p have
\* been made since, as long as the level applied to p from outside has not
\* changed; and none of these four functions stores to OE.
C12_InputPinUnaffected ==
    /\ (pc = "rd_ret" /\ AboutPin(arg) /\ last[1] = "input") => (ret = last[3])
    /\ (op \in {"gpio_write", "gpio_set", "gpio_clear", "gpio_toggle"})
           => (StoresTo("OE") = <<>>)

\* gpio_read returns the level of an input pin after a store has changed the
\* pin's bit of OUT to the opposite level.
C12_Witness ==
    /\ pc = "rd_ret" /\ AboutPin(arg) /\ last[1] = "input" /\ last[4]
    /\ READ_BIT(OUT, arg) # last[3]

Bit(x, b) == (x \div Pow2(b)) % 2

\* C13: gpio_set_group(mask) leaves every flagged bit of OUT 1,
\* gpio_clear_group(mask) leaves it 0 and gpio_toggle_group(mask) leaves it
\* inverted, and each leaves every other bit of OUT as it was, for every
\* mask, 0 and all ones included.
C13_GroupChangesFlaggedBits ==
    \A b \in PinIds :
        /\ (pc = "sg_ret") =>
               (Bit(OUT, b) = IF Bit(arg, b) = 1 THEN 1 ELSE Bit(pre[2], b))
        /\ (pc = "cg_ret") =>
               (Bit(OUT, b) = IF Bit(arg, b) = 1 THEN 0 ELSE Bit(pre[2], b))
        /\ (pc = "tgg_ret") =>
               (Bit(OUT, b) = IF Bit(arg, b) = 1 THEN 1 - Bit(pre[2], b) ELSE Bit(pre[2], b))

\* gpio_set_group with a sparse mask: bit 0 was clear and is flagged, every
\* other bit was set and is not flagged.
C13_Witness ==
    /\ pc = "sg_ret" /\ arg = 1 /\ pre[2] = GpioMod - 2 /\ OUT = GpioMod - 1

GroupOps ==
    {"gpio_set_output_group", "gpio_set_input_group", "gpio_write_group",
     "gpio_set_group", "gpio_clear_group", "gpio_toggle_group"}

\* The register a group operation stores to.
GroupRegister ==
    CASE op = "gpio_set_output_group" -> "OE"
      [] op = "gpio_set_input_group" -> "OE"
      [] op = "gpio_write_group" -> "OUT"
      [] op = "gpio_set_group" -> "SET"
      [] op = "gpio_clear_group" -> "CLR"
      [] op = "gpio_toggle_group" -> "OUT"

\* Bit b of OE and of OUT once the group operation in progress has taken effect.
GroupNewOE(b) ==
    CASE op = "gpio_set_output_group" -> IF Bit(arg, b) = 1 THEN 1 ELSE Bit(pre[1], b)
      [] op = "gpio_set_input_group" -> IF Bit(arg, b) = 1 THEN 0 ELSE Bit(pre[1], b)
      [] OTHER -> Bit(pre[1], b)
GroupNewOUT(b) ==
    CASE op = "gpio_write_group" -> Bit(arg, b)
      [] op = "gpio_set_group" -> IF Bit(arg, b) = 1 THEN 1 ELSE Bit(pre[2], b)
      [] op = "gpio_clear_group" -> IF Bit(arg, b) = 1 THEN 0 ELSE Bit(pre[2], b)
      [] op = "gpio_toggle_group" -> IF Bit(arg, b) = 1 THEN 1 - Bit(pre[2], b) ELSE Bit(pre[2], b)
      [] OTHER -> Bit(pre[2], b)

\* C14: a GPIO group operation makes exactly one store, to one register: at
\* every point of the call OE and OUT are either entirely as at the call
\* (before the store) or entirely the operation's result (after it), and the
\* call returns with the one store made.
C14_GroupIsOneStore ==
    (op \in GroupOps) =>
        /\ Len(Stores(log)) <= 1
        /\ (pc \in RetLabels) => (Len(Stores(log)) = 1)
        /\ (Stores(log) = <<>>) => (<<OE, OUT>> = pre)
        /\ (Stores(log) # <<>>) =>
               /\ Stores(log)[1][2] = GroupRegister
               /\ \A b \in PinIds :
                      Bit(OE, b) = GroupNewOE(b) /\ Bit(OUT, b) = GroupNewOUT(b)

\* gpio_toggle_group returns having inverted every pin at once.
C14_Witness ==
    /\ op = "gpio_toggle_group" /\ pc = "tgg_ret" /\ arg = GpioMod - 1
    /\ Len(Stores(log)) = 1 /\ OUT = GpioMod - 1 - pre[2]

\* C15: gpio_write(p, v) with v neither LOW nor HIGH makes no access and
\* leaves OE and OUT as they were; with v LOW its only access is one store of
\* 1 << p to CLR, with v HIGH one store of 1 << p to SET.
C15_WriteStoresOnceOrNever ==
    (pc = "gw_ret") =>
        /\ (arg[2] = LOW) => (log = << <<"st", "CLR", Pow2(arg[1])>> >>)
        /\ (arg[2] = HIGH) => (log = << <<"st", "SET", Pow2(arg[1])>> >>)
        /\ (arg[2] \notin {LOW, HIGH}) => (log = <<>> /\ <<OE, OUT>> = pre)

\* gpio_write returns from a call with a value that is neither LOW nor HIGH,
\* for a pin that is an output and is low.
C15_Witness ==
    /\ pc = "gw_ret" /\ arg[2] = HIGH + 1
    /\ Bit(OE, arg[1]) = 1 /\ Bit(OUT, arg[1]) = 0

\* C16: spi_set_cpol and spi_set_cpha called with a value above 1, and
\* spi_set_mode called with a value that is none of the four modes, make no
\* access: CPOL, CPHA and the other registers software writes are as at the
\* call, and so are BUSY and RDATA unless a transfer has ended meanwhile.
C16_InvalidArgumentIgnored ==
    (\/ pc = "cpol_ret" /\ arg > 1
     \/ pc = "cpha_ret" /\ arg > 1
     \/ pc = "mode_ret" /\ ~IsSpiMode(arg))
        => /\ log = <<>>
           /\ <<CPOL, CPHA, CHIP_SELECT, CLOCK_CONF, SPI_WDATA>> = SubSeq(pre, 1, 5)
           /\ (~latched) => (spiRegs = pre)

\* spi_set_cpol returns from a call with a value above 1 while CPOL is 1 and
\* CPHA is 0.
C16_Witness ==
    /\ pc = "cpol_ret" /\ arg > 1 /\ CPOL = 1 /\ CPHA = 0 /\ log = <<>>

\* C17: mtimer_enable leaves bit 0 of CR set and mtimer_disable leaves it
\* clear; the other bits of CR are as at the call; the only store of the call
\* is the one to CR, so that the compare registers are as at the call and so
\* is the counter unless it has counted meanwhile; and a call made with the
\* bit already as the call leaves it (enable after enable, disable after
\* disable) leaves CR as it was.
C17_EnableBitOnly ==
    (pc \in {"en_ret", "dis_ret"}) =>
        /\ CR % 2 = (IF pc = "en_ret" THEN 1 ELSE 0)
        /\ CR \div 2 = pre[1] \div 2
        /\ (pre[1] % 2 = CR % 2) => (CR = pre[1])
        /\ Len(Stores(log)) = 1 /\ Stores(log)[1][2] = "CR"
        /\ <<MTIMECMPL, MTIMECMPH>> = <<pre[4], pre[5]>>
        /\ (~ticked) => (<<MTIMEL, MTIMEH>> = <<pre[2], pre[3]>>)

\* mtimer_disable returns having cleared the enable bit of a CR whose other
\* bits are set, after the counter has counted during the call.
C17_Witness ==
    /\ pc = "dis_ret" /\ pre[1] = WordMax /\ CR = WordMax - 1 /\ ticked

\* The clock polarity and phase each mode stands for.
ModeTable(mode) ==
    CASE mode = SPI_MODE0_CPOL0_CPHA0 -> <<0, 0>>
      [] mode = SPI_MODE1_CPOL0_CPHA1 -> <<0, 1>>
      [] mode = SPI_MODE2_CPOL1_CPHA0 -> <<1, 0>>
      [] mode = SPI_MODE3_CPOL1_CPHA1 -> <<1, 1>>

\* C18: spi_set_mode(m) with m one of the four modes returns with CPOL and
\* CPHA holding the mode's polarity and phase, having stored to CPOL first and
\* to CPHA second and accessed nothing else.
C18_ModeSetsPolarityThenPhase ==
    (pc = "mode_ret" /\ IsSpiMode(arg)) =>
        /\ <<CPOL, CPHA>> = ModeTable(arg)
        /\ log = << <<"st", "CPOL", ModeTable(arg)[1]>>,
                    <<"st", "CPHA", ModeTable(arg)[2]>> >>

\* spi_set_mode returns from a call for mode 1 that has changed both CPOL
\* and CPHA.
C18_Witness ==
    /\ pc = "mode_ret" /\ arg = SPI_MODE1_CPOL0_CPHA1
    /\ pre[1] = 1 /\ pre[2] = 0 /\ CPOL = 0 /\ CPHA = 1

\* C19: with CPOL and CPHA 0 or 1 to begin with, they are 0 or 1 after every
\* sequence of spi_set_cpol, spi_set_cpha and spi_set_mode calls, whatever
\* the arguments, and spi_get_mode returns a value from 0 to 3.
C19_PolarityAndPhaseStayBits ==
    /\ CPOL \in {0, 1} /\ CPHA \in {0, 1}
    /\ (pc = "gm_ret") => (ret \in 0 .. 3)

\* spi_set_cpha returns from a call with the largest value of its argument
\* type, after CPOL and CPHA have been set to 1.
C19_Witness ==
    /\ pc = "cpha_ret" /\ arg = ByteMod - 1 /\ CPOL = 1 /\ CPHA = 1

\* C20: with the controller idle to begin with and the hardware raising BUSY
\* at a store to WDATA and clearing it at the end of the transfer, every
\* store to WDATA and every load of RDATA of spi_write and spi_transfer is
\* made while BUSY is 0, in every sequence of calls.
C20_DataAccessesWhileIdle ==
    (pc \in {"wr1", "xf1", "xf_rd"}) => (BUSY = 0)

\* spi_transfer is about to load RDATA, having stored to WDATA, found the
\* controller busy and then found it ready.
C20_Witness ==
    /\ pc = "xf_rd" /\ BUSY = 0 /\ latched /\ Len(log) > 2

\* C21: spi_get_cs called after spi_deselect returns the byte of all ones
\* (0xff) and called after spi_select(id) returns id, for every byte id; and
\* the only access of spi_select and of spi_deselect is one store to
\* CHIP_SELECT: neither loads BUSY.
C21_ChipSelectReadsBack ==
    /\ (pc = "cs_ret" /\ last # <<>> /\ last[1] = "deselect") => (ret = ByteMod - 1)
    /\ (pc = "cs_ret" /\ last # <<>> /\ last[1] = "select") => (ret = last[2])
    /\ (pc = "sel_ret") => (log = << <<"st", "CHIP_SELECT", arg>> >>)
    /\ (pc = "des_ret") => (log = << <<"st", "CHIP_SELECT", RegMod - 1>> >>)
    /\ (op \in {"spi_select", "spi_deselect"}) =>
           (SelectSeq(log, BusyLoad) = <<>>)

\* spi_get_cs returns after spi_deselect, made while a transfer was in
\* progress.
C21_Witness ==
    /\ pc = "cs_ret" /\ last = <<"deselect">> /\ ret = ByteMod - 1
    /\ CHIP_SELECT = RegMod - 1 /\ BUSY = 1

\* C22: the store of mtimer_set_counter(v) to MTIMEH leaves the counter at
\* v plus the number of times it has counted since the store to MTIMEL,
\* whether counting is enabled or not and whatever the low word of v is.
C22_CounterIsValuePlusTicks ==
    [][mtimer_set_counter_2 => (Counter' = (arg + ticks) % DWordMod)]_vars

Interrupted == last # <<>> /\ last[1] = "isr"

\* C23 as stated: a mtimer_set_compare(N) interrupted between two of its
\* stores by a handler that makes a whole call mtimer_set_compare(M) returns
\* with the compare value N or M.
C23_FinalIsNOrM ==
    (pc = "cmp_ret" /\ Interrupted) => (Compare \in {arg, last[2]})

\* C23, amended: interrupted between its first and its second store the call
\* returns with the compare value N; interrupted between its second and its
\* third store it returns with the high word of M and the low word of N.
C23_FinalIsNOrHighOfM ==
    (pc = "cmp_ret" /\ Interrupted) =>
        /\ MTIMECMPL = arg % WordMod
        /\ MTIMECMPH = (IF last[3] = "cmp2" THEN arg ELSE last[2]) \div WordMod

\* The call returns with a compare value that is neither N nor M, having
\* been interrupted between its second and its third store.
C23_Witness ==
    /\ pc = "cmp_ret" /\ Interrupted /\ last[3] = "cmp3"
    /\ Compare \notin {arg, last[2]}

\* The value of a register once the flagged bits have been set (by a store
\* to SET) or cleared (by a store to CLR), bit by bit.
RECURSIVE Updated(_, _, _, _)
Updated(out, reg, mask, n) ==
    IF n = 0 THEN 0
    ELSE (IF mask % 2 = 1 THEN (IF reg = "SET" THEN 1 ELSE 0) ELSE out % 2)
         + 2 * Updated(out \div 2, reg, mask \div 2, n - 1)

MainRegister == IF op \in {"gpio_set", "gpio_set_group"} THEN "SET" ELSE "CLR"

\* C24: a gpio_set, gpio_clear, gpio_set_group or gpio_clear_group call
\* interrupted, before or after its store, by a handler that makes one of
\* these calls for other pins returns with OUT as the two calls made one
\* after the other leave it, in either order; the interrupted call's only
\* access is its one store.
C24_NoUpdateLost ==
    (pc \in {"gs_ret", "gc_ret", "sg_ret", "cg_ret"} /\ Len(pre) = 4) =>
        /\ OUT = Updated(Updated(pre[2], MainRegister, MainMask, NumPins),
                         pre[3], pre[4], NumPins)
        /\ OUT = Updated(Updated(pre[2], pre[3], pre[4], NumPins),
                         MainRegister, MainMask, NumPins)
        /\ log = << <<"st", MainRegister, MainMask>> >>

\* gpio_set returns after a handler has cleared another pin that was set:
\* both changes are in OUT.
C24_Witness ==
    /\ pc = "gs_ret" /\ Len(pre) = 4 /\ pre[3] = "CLR" /\ pre[4] # 0
    /\ BitAnd(pre[2], pre[4]) = pre[4] /\ Bit(pre[2], arg) = 0
    /\ Bit(OUT, arg) = 1 /\ BitAnd(OUT, pre[4]) = 0

====
